---------------------------- MODULE Spec2Model ----------------------------
(***************************************************************************)
(* A model of codespan-reporting's position resolver (files.rs) and of the *)
(* rich and short diagnostic views (term/views.rs).                        *)
(*                                                                         *)
(* A string is a sequence of characters; a character is a token whose      *)
(* UTF-8 width is given by len_utf8.  Byte offsets are computed from the   *)
(* widths, so that offsets inside a multi-byte character exist.            *)
(***************************************************************************)
EXTENDS Integers, Sequences, FiniteSets, TLC

VARIABLES
    files,          \* SimpleFiles.files: sequence of [origin, source]
    diagnostic,     \* the Diagnostic handed to emit: [labels, notes]
    call,           \* the last call of a pure function of files.rs, with its result
    pc,             \* where the running emit is
    marked_files,   \* RichDiagnostic::emit's marked_files
    outer_padding,  \* RichDiagnostic::emit's outer_padding
    sink            \* the entries handed to Renderer::render and accepted, in order

vars == <<files, diagnostic, call, pc, marked_files, outer_padding, sink>>

---------------------------------------------------------------------------
(* Bounds of the model. *)

\* longest enumerated source text, in characters
MaxSourceLen == 3
\* longest enumerated line handed to column_index, in characters
MaxLineLen == 3
\* largest line_start handed to column_index
MaxLineStart == 2
\* most labels of an enumerated diagnostic
MaxLabels == 2
\* most files of a table
MaxFiles == 3

---------------------------------------------------------------------------
(* Option<T> *)

None == [tag |-> "None"]
Some(x) == [tag |-> "Some", val |-> x]

---------------------------------------------------------------------------
(* Strings *)

\* char::len_utf8 of the tokens used for characters
len_utf8(c) ==
    IF c \in {"U+00BB", "U+00E2", "U+00E9", "U+00F0", "U+0152", "U+0178", "U+02C6"}
    THEN 2
    ELSE IF c \in {"U+2014", "U+2208"} THEN 3
    ELSE IF c = "U+1F5FB" THEN 4
    ELSE 1

\* char::is_whitespace, on the tokens used
is_whitespace(c) == c \in {" ", "\n", "\r", "\t"}

RECURSIVE str_len(_)
\* str::len: the length in bytes
str_len(s) == IF s = <<>> THEN 0 ELSE len_utf8(Head(s)) + str_len(Tail(s))

\* str::char_indices().map(|(i, _)| i): the byte offset at which each character starts
char_indices(s) == [k \in 1..Len(s) |-> str_len(SubSeq(s, 1, k - 1))]

\* str::is_char_boundary
is_char_boundary(s, index) ==
    \/ index = 0
    \/ index = str_len(s)
    \/ \E k \in 1..Len(s) : char_indices(s)[k] = index

\* &s[lo..hi] for offsets on character boundaries: the characters lying in the byte range
str_slice(s, lo, hi) ==
    LET ci == char_indices(s)
        keep == {k \in 1..Len(s) : lo <= ci[k] /\ ci[k] < hi}
    IN  IF keep = {} THEN <<>>
        ELSE SubSeq(s, CHOOSE k \in keep : \A j \in keep : k <= j,
                       CHOOSE k \in keep : \A j \in keep : j <= k)

\* str::trim().is_empty()
trim_is_empty(s) == \A k \in 1..Len(s) : is_whitespace(s[k])

---------------------------------------------------------------------------
(* files.rs *)

RECURSIVE match_indices_nl(_, _)
\* source.match_indices('\n').map(|(i, _)| i + 1), scanning from byte offset `at`
match_indices_nl(s, at) ==
    IF s = <<>> THEN <<>>
    ELSE (IF Head(s) = "\n" THEN <<at + 1>> ELSE <<>>)
         \o match_indices_nl(Tail(s), at + len_utf8(Head(s)))

\* line_starts: once(0).chain(...)
line_starts(source) == <<0>> \o match_indices_nl(source, 0)

RECURSIVE binary_search_loop(_, _, _, _)
\* [usize]::binary_search: the bisection over the 0-based half-open window left..right
binary_search_loop(v, x, left, right) ==
    IF left >= right THEN [tag |-> "Err", val |-> left]
    ELSE LET mid == left + ((right - left) \div 2)
         IN  IF v[mid + 1] < x THEN binary_search_loop(v, x, mid + 1, right)
             ELSE IF v[mid + 1] > x THEN binary_search_loop(v, x, left, mid)
             ELSE [tag |-> "Ok", val |-> mid]

binary_search(v, x) == binary_search_loop(v, x, 0, Len(v))

\* SimpleFile::new
SimpleFile_new(origin, source) ==
    [origin |-> origin, source |-> source, line_starts |-> line_starts(source)]

SimpleFile_line_start_NoEnd(file, line_index) ==
    IF line_index < Len(file.line_starts)
    THEN Some(file.line_starts[line_index + 1])
    ELSE None

\* SimpleFile::line_start
SimpleFile_line_start(file, line_index) ==
    IF line_index < Len(file.line_starts)
    THEN Some(file.line_starts[line_index + 1])
    ELSE IF line_index = Len(file.line_starts)
    THEN Some(str_len(file.source))
    ELSE None

\* SimpleFile::line_range
SimpleFile_line_range(file, line_index) ==
    LET line_start == SimpleFile_line_start(file, line_index)
        next_line_start == SimpleFile_line_start(file, line_index + 1)
    IN  IF line_start = None \/ next_line_start = None THEN None
        ELSE Some([start |-> line_start.val, end |-> next_line_start.val])

SimpleFile_line_index_NextLine(file, byte_index) ==
    LET r == binary_search(file.line_starts, byte_index)
    IN  Some(r.val)

\* <SimpleFile as Files>::line_index
SimpleFile_line_index(file, byte_index) ==
    LET r == binary_search(file.line_starts, byte_index)
    IN  IF r.tag = "Ok" THEN Some(r.val) ELSE Some(r.val - 1)

\* <SimpleFile as Files>::line
SimpleFile_line(file, line_index) ==
    LET range == SimpleFile_line_range(file, line_index)
    IN  IF range = None THEN None
        ELSE Some([number |-> line_index + 1, range |-> range.val])

column_index_NoFixup(line_source, line_start, byte_index) ==
    IF byte_index < line_start THEN 0
    ELSE LET relative_index == byte_index - line_start
             ci == char_indices(line_source)
         IN  Cardinality({k \in 1..Len(line_source) : ci[k] < relative_index})

column_index_Inclusive(line_source, line_start, byte_index) ==
    IF byte_index < line_start THEN 0
    ELSE LET relative_index == byte_index - line_start
             ci == char_indices(line_source)
             column_index == Cardinality({k \in 1..Len(line_source) : ci[k] <= relative_index})
         IN  IF relative_index >= str_len(line_source) THEN column_index
             ELSE IF is_char_boundary(line_source, relative_index) THEN column_index
             ELSE column_index - 1

\* files::column_index
column_index(line_source, line_start, byte_index) ==
    IF byte_index < line_start THEN 0
    ELSE LET relative_index == byte_index - line_start
             ci == char_indices(line_source)
             \* char_indices increase, so take_while(..).count() counts them all
             column_index == Cardinality({k \in 1..Len(line_source) : ci[k] < relative_index})
         IN  IF relative_index >= str_len(line_source) THEN column_index
             ELSE IF is_char_boundary(line_source, relative_index) THEN column_index
             ELSE column_index - 1

\* files::column_number
column_number(line_source, line_start, byte_index) ==
    column_index(line_source, line_start, byte_index) + 1

\* SimpleFiles::new
SimpleFiles_new == <<>>

\* SimpleFiles::add: the table with the file pushed, and the handle returned
SimpleFiles_add(fs, origin, source) ==
    [files |-> Append(fs, SimpleFile_new(origin, source)), file_id |-> Len(fs)]

\* SimpleFiles::get
SimpleFiles_get(fs, file_id) ==
    IF file_id < Len(fs) THEN Some(fs[file_id + 1]) ELSE None

\* <SimpleFiles as Files>::origin
Files_origin(fs, file_id) ==
    LET f == SimpleFiles_get(fs, file_id)
    IN  IF f = None THEN None ELSE Some(f.val.origin)

\* <SimpleFiles as Files>::line_index
Files_line_index(fs, file_id, byte_index) ==
    LET f == SimpleFiles_get(fs, file_id)
    IN  IF f = None THEN None ELSE SimpleFile_line_index(f.val, byte_index)

\* <SimpleFiles as Files>::line
Files_line(fs, file_id, line_index) ==
    LET f == SimpleFiles_get(fs, file_id)
    IN  IF f = None THEN None ELSE SimpleFile_line(f.val, line_index)

\* <SimpleFiles as Files>::source
Files_source(fs, file_id) ==
    LET f == SimpleFiles_get(fs, file_id)
    IN  IF f = None THEN None ELSE Some(f.val.source)

---------------------------------------------------------------------------
(* term/views.rs *)

RECURSIVE count_digits(_)
\* count_digits
count_digits(n) == IF n = 0 THEN 0 ELSE 1 + count_digits(n \div 10)

\* the files::Line the views read: number, start and the line's text
View_line(fs, file_id, line_index) ==
    LET line == Files_line(fs, file_id, line_index)
        source == Files_source(fs, file_id)
    IN  IF line = None \/ source = None THEN None
        ELSE Some([number |-> line.val.number,
                   start |-> line.val.range.start,
                   source |-> str_slice(source.val, line.val.range.start,
                                        line.val.range.end)])

\* Line::column_number
Line_column_number(line, byte_index) ==
    column_number(line.source, line.start, byte_index)

\* the severity of a label's marks
mark_severity(diag, label) ==
    IF label.style = "Primary" THEN Some(diag.severity) ELSE None

update_outer_padding_LastWins(padding, line) == count_digits(line.number)

\* outer_padding = max(outer_padding, count_digits(line.number))
update_outer_padding(padding, line) ==
    IF count_digits(line.number) > padding THEN count_digits(line.number) ELSE padding

RECURSIVE fold_outer_padding(_, _)
\* the padding after the lines of one label were collected
fold_outer_padding(padding, lines) ==
    IF lines = <<>> THEN padding
    ELSE fold_outer_padding(update_outer_padding(padding, Head(lines)), Tail(lines))

\* (start_line_index..=end_line_index).map(|line_index| files.line(..))
label_lines(fs, file_id, start_line_index, end_line_index) ==
    [k \in 1..(end_line_index + 1 - start_line_index) |->
        View_line(fs, file_id, start_line_index + k - 1)]

\* marked_files.iter_mut().find(|(file_id, _)| label.file_id == *file_id)
find_marked_file(mfs, file_id) ==
    LET hits == {k \in 1..Len(mfs) : mfs[k].file_id = file_id}
    IN  IF hits = {} THEN 0 ELSE CHOOSE k \in hits : \A j \in hits : k <= j

push_mark_AlwaysNewFile(mfs, file_id, origin, file_mark) ==
    Append(mfs, [file_id |-> file_id, origin |-> origin, marks |-> <<file_mark>>])

\* the match on find: a new MarkedFile is pushed, or the mark joins its file's
push_mark(mfs, file_id, origin, file_mark) ==
    LET k == find_marked_file(mfs, file_id)
    IN  IF k = 0
        THEN Append(mfs, [file_id |-> file_id, origin |-> origin,
                          marks |-> <<file_mark>>])
        ELSE [mfs EXCEPT ![k].marks = Append(@, file_mark)]

\* one iteration of `for label in &self.diagnostic.labels`; acc.panicked
\* says that an expect() failed
group_label(fs, diag, acc, label) ==
    LET start_line_index == Files_line_index(fs, label.file_id, label.range.start)
        end_line_index == Files_line_index(fs, label.file_id, label.range.end)
    IN  IF acc.panicked THEN acc
        ELSE IF start_line_index = None \/ end_line_index = None
        THEN [acc EXCEPT !.panicked = TRUE]
        ELSE
          LET lines == label_lines(fs, label.file_id, start_line_index.val,
                                   end_line_index.val)
              found == \A k \in 1..Len(lines) : lines[k] # None
              got == [k \in 1..Len(lines) |-> lines[k].val]
              file_mark == [severity |-> mark_severity(diag, label),
                            range |-> label.range,
                            lines |-> got,
                            message |-> label.message]
              origin == Files_origin(fs, label.file_id)
          IN  IF ~found THEN [acc EXCEPT !.panicked = TRUE]
              ELSE IF find_marked_file(acc.marked_files, label.file_id) = 0
                      /\ origin = None
              THEN [acc EXCEPT !.panicked = TRUE]
              ELSE [marked_files |-> push_mark(acc.marked_files, label.file_id,
                                               origin.val, file_mark),
                    outer_padding |-> fold_outer_padding(acc.outer_padding, got),
                    panicked |-> FALSE]

RECURSIVE group_labels(_, _, _, _)
\* `for label in &self.diagnostic.labels { .. }`
group_labels(fs, diag, acc, labels) ==
    IF labels = <<>> THEN acc
    ELSE group_labels(fs, diag, group_label(fs, diag, acc, Head(labels)), Tail(labels))

key_le_StartOnly(m1, m2) == m1.range.start <= m2.range.start

\* the order of the keys (mark.range.start, mark.range.end)
key_le(m1, m2) ==
    \/ m1.range.start < m2.range.start
    \/ m1.range.start = m2.range.start /\ m1.range.end <= m2.range.end

RECURSIVE sort_insert(_, _)
\* the place of mark m in the sorted marks: after every mark whose key is
\* not greater (sort_by_key is stable)
sort_insert(sorted, m) ==
    IF sorted = <<>> THEN <<m>>
    ELSE IF key_le(Head(sorted), m) THEN <<Head(sorted)>> \o sort_insert(Tail(sorted), m)
    ELSE <<m>> \o sorted

RECURSIVE sort_by_key(_)
\* marked_file.marks.sort_by_key(|mark| (mark.range.start, mark.range.end))
sort_by_key(marks) ==
    IF marks = <<>> THEN <<>>
    ELSE sort_insert(sort_by_key(SubSeq(marks, 1, Len(marks) - 1)), marks[Len(marks)])

\* `for (_, marked_file) in marked_files.iter_mut() { marked_file.marks.sort_by_key(..) }`
sort_marked_files(mfs) ==
    [k \in 1..Len(mfs) |-> [mfs[k] EXCEPT !.marks = sort_by_key(@)]]

(* Entries *)

Entry_Header(locus, severity) ==
    [kind |-> "Header", locus |-> locus, severity |-> severity]
Entry_Empty == [kind |-> "Empty"]
Entry_SourceStart(padding, locus) ==
    [kind |-> "SourceStart", outer_padding |-> padding, locus |-> locus]
Entry_SourceEmpty(padding) == [kind |-> "SourceEmpty", outer_padding |-> padding]
Entry_SourceBreak(padding) == [kind |-> "SourceBreak", outer_padding |-> padding]
Entry_SourceLine(padding, line, severity, mark) ==
    [kind |-> "SourceLine", outer_padding |-> padding, line_number |-> line.number,
     source |-> line.source, marks |-> <<[severity |-> severity, mark |-> mark]>>]
Entry_SourceNote(padding, message) ==
    [kind |-> "SourceNote", outer_padding |-> padding, message |-> message]

Mark_Single(start, end, message) ==
    [kind |-> "Single", start |-> start, end |-> end, message |-> message]
Mark_MultiTopLeft == [kind |-> "MultiTopLeft"]
Mark_MultiTop(end) == [kind |-> "MultiTop", end |-> end]
Mark_MultiLeft == [kind |-> "MultiLeft"]
Mark_MultiBottom(end, message) ==
    [kind |-> "MultiBottom", end |-> end, message |-> message]

\* a panic of the running emit, in place of the entry it was about to render
Panic == [kind |-> "panic"]

top_mark_AlwaysLeft(start_source, mark_start) == Mark_MultiTopLeft

\* the mark of a multi-line label's first line
top_mark(start_source, mark_start) ==
    IF trim_is_empty(str_slice(start_source, 0, mark_start))
    THEN Mark_MultiTopLeft
    ELSE Mark_MultiTop(mark_start)

single_mark_Absolute(file_mark, start_line) ==
    Mark_Single(file_mark.range.start, file_mark.range.end, file_mark.message)

\* the mark of a single-line label
single_mark(file_mark, start_line) ==
    Mark_Single(file_mark.range.start - start_line.start,
                file_mark.range.end - start_line.start,
                file_mark.message)

\* what the body of `for (i, file_mark) in marked_file.marks.iter().enumerate()`
\* hands to the renderer after the SourceEmpty or SourceBreak
mark_entries(file_mark, padding) ==
    LET lines == file_mark.lines
        n == Len(lines)
        start_line == lines[1]
        end_line == lines[n]
        mark_start == file_mark.range.start - start_line.start
    IN  IF n = 0 THEN <<>>
        ELSE IF n = 1
        THEN <<Entry_SourceLine(padding, start_line, file_mark.severity,
                                single_mark(file_mark, start_line))>>
        \* &start_source[..mark_start] panics off a character boundary
        ELSE IF ~(mark_start <= str_len(start_line.source)
                  /\ is_char_boundary(start_line.source, mark_start))
        THEN <<Panic>>
        ELSE <<Entry_SourceLine(padding, start_line, file_mark.severity,
                                top_mark(start_line.source, mark_start))>>
             \o [k \in 1..(n - 2) |->
                   Entry_SourceLine(padding, lines[k + 1], file_mark.severity,
                                    Mark_MultiLeft)]
             \o <<Entry_SourceLine(padding, end_line, file_mark.severity,
                                   Mark_MultiBottom(file_mark.range.end - end_line.start,
                                                    file_mark.message))>>

RECURSIVE marks_entries(_, _, _)
\* `for (i, file_mark) in marked_file.marks.iter().enumerate() { .. }`, from mark i (0-based)
marks_entries(marks, i, padding) ==
    IF i >= Len(marks) THEN <<>>
    ELSE <<IF i = 0 THEN Entry_SourceEmpty(padding) ELSE Entry_SourceBreak(padding)>>
         \o mark_entries(marks[i + 1], padding)
         \o marks_entries(marks, i + 1, padding)

\* the body of `for (_, marked_file) in &marked_files`
file_entries(marked_file, padding) ==
    IF marked_file.marks = <<>> THEN <<>>
    ELSE LET first_mark == marked_file.marks[1]
             first_line == first_mark.lines[1]
         IN  IF first_mark.lines = <<>> THEN <<Panic>>
             ELSE <<Entry_SourceStart(padding,
                        [origin |-> marked_file.origin,
                         line_number |-> first_line.number,
                         column_number |->
                             Line_column_number(first_line, first_mark.range.start)])>>
                  \o marks_entries(marked_file.marks, 0, padding)
                  \o <<Entry_SourceEmpty(padding)>>

RECURSIVE files_entries(_, _)
files_entries(mfs, padding) ==
    IF mfs = <<>> THEN <<>>
    ELSE file_entries(Head(mfs), padding) \o files_entries(Tail(mfs), padding)

\* a sequence of render calls up to and with its first panic
until_panic(events) ==
    LET at == {k \in 1..Len(events) : events[k] = Panic}
    IN  IF at = {} THEN events
        ELSE SubSeq(events, 1, CHOOSE k \in at : \A j \in at : k <= j)

rich_entries_NotesFirst(diag, mfs, padding) ==
    until_panic(
        <<Entry_Header(None, diag.severity)>>
        \o (IF mfs # <<>> THEN <<Entry_Empty>> ELSE <<>>)
        \o [k \in 1..Len(diag.notes) |-> Entry_SourceNote(padding, diag.notes[k])]
        \o files_entries(mfs, padding)
        \o <<Entry_Empty>>)

\* the render calls of RichDiagnostic::emit after the marks were grouped, in order
rich_entries(diag, mfs, padding) ==
    until_panic(
        <<Entry_Header(None, diag.severity)>>
        \o (IF mfs # <<>> THEN <<Entry_Empty>> ELSE <<>>)
        \o files_entries(mfs, padding)
        \o [k \in 1..Len(diag.notes) |-> Entry_SourceNote(padding, diag.notes[k])]
        \o <<Entry_Empty>>)

short_filter_All(label) == TRUE

\* |label| label.style == LabelStyle::Primary
short_filter(label) == label.style = "Primary"

\* the body of the loop of ShortDiagnostic::emit for one Primary label
short_header(fs, diag, label) ==
    LET origin == Files_origin(fs, label.file_id)
        start == label.range.start
        line_index == Files_line_index(fs, label.file_id, start)
    IN  IF origin = None \/ line_index = None THEN Panic
        ELSE LET line == View_line(fs, label.file_id, line_index.val)
             IN  IF line = None THEN Panic
                 ELSE Entry_Header(Some([origin |-> origin.val,
                                         line_number |-> line.val.number,
                                         column_number |->
                                             Line_column_number(line.val, start)]),
                                   diag.severity)

RECURSIVE short_headers(_, _, _)
short_headers(fs, diag, labels) ==
    IF labels = <<>> THEN <<>>
    ELSE (IF short_filter(Head(labels)) THEN <<short_header(fs, diag, Head(labels))>>
          ELSE <<>>)
         \o short_headers(fs, diag, Tail(labels))

\* the render calls of ShortDiagnostic::emit, in order
short_entries(fs, diag) ==
    LET located == short_headers(fs, diag, diag.labels)
    IN  until_panic(
            IF located = <<>> THEN <<Entry_Header(None, diag.severity)>>
            ELSE located)

---------------------------------------------------------------------------
(* Inputs *)

\* the sequences over alphabet A of at most n elements
SeqsUpTo(A, n) == UNION {[1..k -> A] : k \in 0..n}

\* the characters of the enumerated sources: a letter, a blank, a line
\* terminator and a two-byte letter
SourceChars == {"a", " ", "\n", "U+00E9"}

\* files.rs test::TEST_SOURCE, "foo\nbar\r\n\nbaz"
TEST_SOURCE ==
    <<"f", "o", "o", "\n", "b", "a", "r", "\r", "\n", "\n", "b", "a", "z">>

Sources == SeqsUpTo(SourceChars, MaxSourceLen) \cup {TEST_SOURCE}

\* the characters of the lines handed to column_index: one of each width
LineChars == {"a", "U+00E9", "U+2208", "U+1F5FB"}

\* the line_source of the doc examples of column_index and column_number,
\* as the literal stands in files.rs: ten characters, 21 bytes
DocLine ==
    <<"U+00F0", "U+0178", "U+2014", "U+00BB", "U+00E2", "U+02C6", "U+02C6",
      "U+00F0", "U+0178", "U+0152">>

\* the files add is called with
AddedFiles == {[origin |-> "c", source |-> <<"z", "\n">>]}

Lines == SeqsUpTo(LineChars, MaxLineLen) \cup {DocLine}

NoDiagnostic == [severity |-> "Error", labels |-> <<>>, notes |-> <<>>]

---------------------------------------------------------------------------
(* The position resolver of one SimpleFile: the file and the argument are  *)
(* drawn first, then line_index or line is called on them.  SimpleFiles::add *)
(* may push further files onto the table before the call.                  *)

InitFiles ==
    /\ \E source \in Sources :
         /\ files = <<SimpleFile_new("test", source)>>
         /\ \E arg \in 0..(str_len(source) + 2) : call = [fn |-> "none", arg |-> arg]
    /\ diagnostic = NoDiagnostic
    /\ pc = "idle"
    /\ marked_files = <<>>
    /\ outer_padding = 0
    /\ sink = <<>>

\* SimpleFiles::add, called while no emit borrows the table
SimpleFilesAdd ==
    /\ \/ pc = "idle" /\ call.fn = "none"
       \/ pc = "start" /\ sink = <<>>
    /\ Len(files) < MaxFiles
    /\ \E f \in AddedFiles : files' = SimpleFiles_add(files, f.origin, f.source).files
    /\ UNCHANGED <<diagnostic, call, pc, marked_files, outer_padding, sink>>

CallLineIndex ==
    /\ call.fn = "none"
    /\ call' = [fn |-> "line_index", arg |-> call.arg,
                ret |-> SimpleFile_line_index(files[1], call.arg)]
    /\ UNCHANGED <<files, diagnostic, pc, marked_files, outer_padding, sink>>

CallLine ==
    /\ call.fn = "none"
    /\ call' = [fn |-> "line", arg |-> call.arg,
                ret |-> SimpleFile_line(files[1], call.arg)]
    /\ UNCHANGED <<files, diagnostic, pc, marked_files, outer_padding, sink>>

NextFiles == SimpleFilesAdd \/ CallLineIndex \/ CallLine

SpecFiles == InitFiles /\ [][NextFiles]_vars

---------------------------------------------------------------------------
(* column_index and column_number: the arguments are drawn first, then the *)
(* function is called on them.                                             *)

InitColumn ==
    /\ files = <<>>
    /\ diagnostic = NoDiagnostic
    /\ \E line_source \in Lines, line_start \in 0..MaxLineStart :
         \E byte_index \in 0..(line_start + str_len(line_source) + 2) :
            call = [fn |-> "none", line_source |-> line_source,
                    line_start |-> line_start, byte_index |-> byte_index]
    /\ pc = "idle"
    /\ marked_files = <<>>
    /\ outer_padding = 0
    /\ sink = <<>>

CallColumnIndex ==
    /\ call.fn = "none"
    /\ call' = [fn |-> "column_index", line_source |-> call.line_source,
                line_start |-> call.line_start, byte_index |-> call.byte_index,
                ret |-> column_index(call.line_source, call.line_start, call.byte_index)]
    /\ UNCHANGED <<files, diagnostic, pc, marked_files, outer_padding, sink>>

CallColumnNumber ==
    /\ call.fn = "none"
    /\ call' = [fn |-> "column_number", line_source |-> call.line_source,
                line_start |-> call.line_start, byte_index |-> call.byte_index,
                ret |-> column_number(call.line_source, call.line_start, call.byte_index)]
    /\ UNCHANGED <<files, diagnostic, pc, marked_files, outer_padding, sink>>

NextColumn == CallColumnIndex \/ CallColumnNumber

SpecColumn == InitColumn /\ [][NextColumn]_vars

---------------------------------------------------------------------------
(* The diagnostics rendered *)

Styles == {"Primary", "Secondary"}
NoteLists == {<<>>, <<"n1", "n2">>}

\* the message of the k-th label of a diagnostic: every label has its own
Message(k) == "m" \o ToString(k)

Label(file_id, start, end, style, message) ==
    [file_id |-> file_id, range |-> [start |-> start, end |-> end],
     style |-> style, message |-> message]

\* one file of any enumerated source, and at most one label on it:
\* every range with start <= end, up to one byte past the end of the source
ShapeInputs ==
    {[files |-> <<SimpleFile_new("test", source)>>,
      diagnostic |-> [severity |-> "Error", notes |-> notes,
                      labels |-> <<Label(0, r[1], r[2], "Primary", Message(1))>>]] :
        source \in Sources, notes \in NoteLists,
        r \in {x \in (0..(MaxSourceLen * 2 + 1)) \X (0..(MaxSourceLen * 2 + 1)) : x[1] <= x[2]}}

\* a text of ten lines, the last one empty
TenLines == [k \in 1..9 |-> "\n"]

\* two files, "a" with ten lines and "b" with two
GroupFiles ==
    <<SimpleFile_new("a", TenLines), SimpleFile_new("b", <<"x", "\n", "y">>)>>

\* the places a label of the two files may have; file 2 is not in the table
GroupPlaces ==
    {<<0, 5, 8>>, <<0, 1, 3>>, <<0, 1, 9>>, <<0, 1, 1>>, <<1, 0, 1>>, <<2, 0, 0>>}

\* up to MaxLabels labels on the two files, in any order
GroupInputs ==
    {[files |-> GroupFiles,
      diagnostic |-> [severity |-> "Error", notes |-> notes,
                      labels |-> [k \in 1..Len(ps) |->
                                     Label(ps[k][1][1], ps[k][1][2], ps[k][1][3],
                                           ps[k][2], Message(k))]]] :
        ps \in SeqsUpTo(GroupPlaces \X Styles, MaxLabels), notes \in NoteLists}

\* the spec's grouping example: labels (a,5..8), (a,1..3), (b,0..1)
GroupingExample ==
    [files |-> GroupFiles,
     diagnostic |-> [severity |-> "Error", notes |-> <<>>,
                     labels |-> <<Label(0, 5, 8, "Primary", Message(1)),
                                  Label(0, 1, 3, "Secondary", Message(2)),
                                  Label(1, 0, 1, "Primary", Message(3))>>]]

FooBar == <<"f", "o", "o", "\n", "b", "a", "r", "\n">>

\* the spec's single-line example: source "foo\nbar\n", label 4..7, message "oops"
SingleLineExample ==
    [files |-> <<SimpleFile_new("test", FooBar)>>,
     diagnostic |-> [severity |-> "Error", notes |-> <<>>,
                     labels |-> <<Label(0, 4, 7, "Primary", "oops")>>]]

RenderInputs ==
    {in \in ShapeInputs :
        in.diagnostic.labels[1].range.end <= str_len(in.files[1].source) + 1}
    \cup GroupInputs \cup {GroupingExample, SingleLineExample}

\* emit is about to be called with a diagnostic and a table of files
InitRender ==
    /\ \E in \in RenderInputs :
         /\ files = in.files
         /\ diagnostic = in.diagnostic
    /\ call = [fn |-> "emit"]
    /\ pc = "start"
    /\ marked_files = <<>>
    /\ outer_padding = 0
    /\ sink = <<>>

---------------------------------------------------------------------------
(* RichDiagnostic::emit *)

\* a rich emit that would render the Header before it resolves the labels
RichGroup_HeaderFirst ==
    /\ pc = "start"
    /\ LET acc == group_labels(files, diagnostic,
                               [marked_files |-> <<>>, outer_padding |-> 0,
                                panicked |-> FALSE],
                               diagnostic.labels)
       IN  IF acc.panicked
           THEN /\ pc' = "panic_expect"
                /\ sink' = <<Entry_Header(None, diagnostic.severity)>>
                /\ UNCHANGED <<marked_files, outer_padding>>
           ELSE /\ pc' = "render"
                /\ marked_files' = sort_marked_files(acc.marked_files)
                /\ outer_padding' = acc.outer_padding
                /\ sink' = sink
    /\ UNCHANGED <<files, diagnostic, call>>

\* views.rs 59-116: the labels are resolved and grouped by file, and each
\* file's marks sorted; a failed expect() panics
RichGroup ==
    /\ pc = "start"
    /\ LET acc == group_labels(files, diagnostic,
                               [marked_files |-> <<>>, outer_padding |-> 0,
                                panicked |-> FALSE],
                               diagnostic.labels)
       IN  IF acc.panicked
           THEN /\ pc' = "panic_expect"
                /\ UNCHANGED <<marked_files, outer_padding>>
           ELSE /\ pc' = "render"
                /\ marked_files' = sort_marked_files(acc.marked_files)
                /\ outer_padding' = acc.outer_padding
    /\ UNCHANGED <<files, diagnostic, call, sink>>

\* the render call the running rich emit makes next
RichNext == rich_entries(diagnostic, marked_files, outer_padding)[Len(sink) + 1]

\* renderer.render(&entry)? with a sink that takes the entry; after the
\* last one emit returns Ok(())
RichRender ==
    /\ pc = "render"
    /\ RichNext # Panic
    /\ sink' = Append(sink, RichNext)
    /\ pc' = IF Len(sink') = Len(rich_entries(diagnostic, marked_files, outer_padding))
             THEN "done" ELSE "render"
    /\ UNCHANGED <<files, diagnostic, call, marked_files, outer_padding>>

RichSinkError_Rollback ==
    /\ pc = "render"
    /\ RichNext # Panic
    /\ pc' = "io_error"
    /\ sink' = <<>>
    /\ UNCHANGED <<files, diagnostic, call, marked_files, outer_padding>>

\* renderer.render(&entry)? with a sink that rejects the write: emit returns the error
RichSinkError ==
    /\ pc = "render"
    /\ RichNext # Panic
    /\ pc' = "io_error"
    /\ UNCHANGED <<files, diagnostic, call, marked_files, outer_padding, sink>>

\* &start_source[..mark_start] off a character boundary, or first() of no lines
RichPanic ==
    /\ pc = "render"
    /\ RichNext = Panic
    /\ pc' = "panic_slice"
    /\ UNCHANGED <<files, diagnostic, call, marked_files, outer_padding, sink>>

NextRich == SimpleFilesAdd \/ RichGroup \/ RichRender \/ RichSinkError \/ RichPanic

SpecRich == InitRender /\ [][NextRich]_vars

---------------------------------------------------------------------------
(* ShortDiagnostic::emit *)

\* the render call the running short emit makes next
ShortNext == short_entries(files, diagnostic)[Len(sink) + 1]

\* the next Primary label is resolved and its Header rendered, or the
\* Header without locus; after the last one emit returns Ok(())
ShortRender ==
    /\ pc = "start"
    /\ ShortNext # Panic
    /\ sink' = Append(sink, ShortNext)
    /\ pc' = IF Len(sink') = Len(short_entries(files, diagnostic))
             THEN "done" ELSE "start"
    /\ UNCHANGED <<files, diagnostic, call, marked_files, outer_padding>>

\* the sink rejects the Header: emit returns the error
ShortSinkError ==
    /\ pc = "start"
    /\ ShortNext # Panic
    /\ pc' = "io_error"
    /\ UNCHANGED <<files, diagnostic, call, marked_files, outer_padding, sink>>

\* an expect() on origin, line_index or line fails for the next Primary label
ShortPanic ==
    /\ pc = "start"
    /\ ShortNext = Panic
    /\ pc' = "panic_expect"
    /\ UNCHANGED <<files, diagnostic, call, marked_files, outer_padding, sink>>

NextShort == SimpleFilesAdd \/ ShortRender \/ ShortSinkError \/ ShortPanic

SpecShort == InitRender /\ [][NextShort]_vars

---------------------------------------------------------------------------
(* Either emit, called on the same diagnostics and files *)

\* RichDiagnostic::emit or ShortDiagnostic::emit is about to be called
InitEmit ==
    /\ \E in \in RenderInputs :
         /\ files = in.files
         /\ diagnostic = in.diagnostic
    /\ call \in {[fn |-> "RichDiagnostic::emit"], [fn |-> "ShortDiagnostic::emit"]}
    /\ pc = "start"
    /\ marked_files = <<>>
    /\ outer_padding = 0
    /\ sink = <<>>

IsRich == call.fn = "RichDiagnostic::emit"
IsShort == call.fn = "ShortDiagnostic::emit"

NextEmit ==
    \/ SimpleFilesAdd
    \/ IsRich /\ RichGroup
    \/ IsRich /\ RichRender
    \/ IsRich /\ RichSinkError
    \/ IsRich /\ RichPanic
    \/ IsShort /\ ShortRender
    \/ IsShort /\ ShortSinkError
    \/ IsShort /\ ShortPanic

SpecEmit == InitEmit /\ [][NextEmit]_vars

---------------------------------------------------------------------------
(* Claims about the position resolver *)

\* the called file's length in bytes and its number of lines
CalledLen == str_len(files[1].source)
CalledLineCount == Len(files[1].line_starts)

\* C1: for every byte offset b in 0..len(source), line_index(b) is a line
\* whose range contains b (start <= b < end), except that b = len(source) is
\* the final line; an offset equal to a line start is the line starting
\* there, any other offset the line before the insertion point.
C1_LineIndexContainsOffset ==
    (call.fn = "line_index" /\ call.arg <= CalledLen) =>
        LET b == call.arg
            ls == files[1].line_starts
            before == Cardinality({k \in 1..Len(ls) : ls[k] < b})
        IN  /\ call.ret.tag = "Some"
            /\ call.ret.val \in 0..(CalledLineCount - 1)
            /\ LET line == SimpleFile_line(files[1], call.ret.val)
               IN  /\ line.tag = "Some"
                   /\ b < CalledLen =>
                        (line.val.range.start <= b /\ b < line.val.range.end)
            /\ b = CalledLen => call.ret.val = CalledLineCount - 1
            /\ (\E k \in 1..Len(ls) : ls[k] = b) => ls[call.ret.val + 1] = b
            /\ (\A k \in 1..Len(ls) : ls[k] # b) => call.ret.val = before - 1

\* C1 witness: an offset strictly inside the text that is the start of a
\* later line has been resolved
C1_Witness ==
    /\ call.fn = "line_index"
    /\ call.arg > 0 /\ call.arg < CalledLen
    /\ \E k \in 2..CalledLineCount : files[1].line_starts[k] = call.arg
    /\ call.ret = Some(2)

\* the range line `index` has by the claim: from its line start to the next
\* line start, the one after the last being len(source)
ClaimedLineRangeOf(file, index) ==
    LET ls == file.line_starts
    IN  [start |-> ls[index + 1],
         end |-> IF index + 1 < Len(ls) THEN ls[index + 2] ELSE str_len(file.source)]

ClaimedLineRange(index) == ClaimedLineRangeOf(files[1], index)

\* C2: line(index) is a Line exactly for the indices 0..n-1, with number
\* index + 1 and range [line_start(index), line_start(index+1)), where
\* line_start(n) = len(source); at or beyond n it is not found.  So the line
\* ranges are contiguous from 0 to len(source), every line but the last ends
\* with its terminator and the last has none.
C2_LineRanges ==
    call.fn = "line" =>
        LET n == CalledLineCount
            src == files[1].source
        IN  /\ call.arg < n =>
                call.ret = Some([number |-> call.arg + 1,
                                 range |-> ClaimedLineRange(call.arg)])
            /\ call.arg >= n => call.ret = None
            /\ \A i \in 0..(n - 1) :
                 LET l == SimpleFile_line(files[1], i)
                     text == str_slice(src, l.val.range.start, l.val.range.end)
                 IN  /\ l.tag = "Some"
                     /\ l.val.range.start =
                          (IF i = 0 THEN 0
                           ELSE SimpleFile_line(files[1], i - 1).val.range.end)
                     /\ i = n - 1 => l.val.range.end = CalledLen
                     /\ i < n - 1 => (text # <<>> /\ text[Len(text)] = "\n")
                     /\ \A k \in 1..(Len(text) - 1) : text[k] # "\n"
                     /\ i = n - 1 => \A k \in 1..Len(text) : text[k] # "\n"
            /\ src = TEST_SOURCE =>
                 /\ n = 4
                 /\ call.arg = 0 => call.ret.val.range = [start |-> 0, end |-> 4]
                 /\ call.arg = 1 => call.ret.val.range = [start |-> 4, end |-> 9]
                 /\ call.arg = 2 => call.ret.val.range = [start |-> 9, end |-> 10]
                 /\ call.arg = 3 => call.ret.val.range = [start |-> 10, end |-> 13]

\* C2 witness: the last line of a text of several lines that has no trailing
\* terminator has been fetched, its range ending at the virtual final start
C2_Witness ==
    /\ call.fn = "line"
    /\ CalledLineCount >= 2
    /\ call.arg = CalledLineCount - 1
    /\ files[1].source[Len(files[1].source)] # "\n"
    /\ call.ret.tag = "Some"
    /\ call.ret.val.range.end = CalledLen

\* the characters of s lying entirely before byte offset rel
CharsEntirelyBefore(s, rel) ==
    Cardinality({k \in 1..Len(s) : char_indices(s)[k] + len_utf8(s[k]) <= rel})

\* the characters of s starting strictly before byte offset rel
CharsStartingBefore(s, rel) ==
    Cardinality({k \in 1..Len(s) : char_indices(s)[k] < rel})

\* C3: with byte_index >= line_start, column_index is the number of
\* characters lying entirely before byte_index - line_start: on a boundary
\* the characters starting strictly before it, inside a character the count
\* without the interrupted one.  For the line of widths 4,3,4 at line_start 2
\* it is 0,0,1,2,3 at 2,3,6,10,13; column_number is column_index + 1.
C3_ColumnIndexCountsWholeChars ==
    LET s == call.line_source
        rel == call.byte_index - call.line_start
    IN  /\ (call.fn = "column_index" /\ call.byte_index >= call.line_start) =>
            /\ call.ret = CharsEntirelyBefore(s, rel)
            /\ (rel <= str_len(s) /\ is_char_boundary(s, rel)) =>
                  call.ret = CharsStartingBefore(s, rel)
            /\ (rel < str_len(s) /\ ~is_char_boundary(s, rel)) =>
                  call.ret = CharsStartingBefore(s, rel) - 1
            /\ ([k \in 1..Len(s) |-> len_utf8(s[k])] = <<4, 3, 4>> /\ call.line_start = 2) =>
                  /\ call.byte_index = 2 => call.ret = 0
                  /\ call.byte_index = 3 => call.ret = 0
                  /\ call.byte_index = 6 => call.ret = 1
                  /\ call.byte_index = 10 => call.ret = 2
                  /\ call.byte_index = 13 => call.ret = 3
        /\ call.fn = "column_number" =>
            call.ret = 1 + (IF call.byte_index < call.line_start THEN 0
                            ELSE CharsEntirelyBefore(s, rel))

\* C3 witness: column_index has been called with an offset on the start of
\* the third character of a line of widths 4, 3, 4
C3_Witness ==
    /\ call.fn = "column_index"
    /\ call.line_source = <<"U+1F5FB", "U+2208", "U+1F5FB">>
    /\ call.line_start = 2
    /\ call.byte_index = 10
    /\ call.ret = 2

\* C4: column_index is 0 at byte_index = line_start and for every
\* byte_index < line_start, the line's character count at or past the line's
\* end, and never smaller than at a smaller byte_index.
C4_ColumnIndexMonotonic ==
    call.fn = "column_index" =>
        LET s == call.line_source
        IN  /\ call.byte_index <= call.line_start => call.ret = 0
            /\ call.byte_index >= call.line_start + str_len(s) => call.ret = Len(s)
            /\ \A b1 \in 0..call.byte_index :
                 column_index(s, call.line_start, b1) <= call.ret

\* C4 witness: column_index has been called inside a multi-byte character
\* that is not the line's first, after a non-zero line start
C4_Witness ==
    /\ call.fn = "column_index"
    /\ call.line_start > 0
    /\ call.byte_index > call.line_start
    /\ ~is_char_boundary(call.line_source, call.byte_index - call.line_start)
    /\ call.byte_index - call.line_start < str_len(call.line_source)
    /\ call.ret >= 1

---------------------------------------------------------------------------
(* Claims about the views *)

Labels == diagnostic.labels

\* the rich emit has grouped and sorted the marks
Grouped == pc \in {"render", "done", "io_error", "panic_slice"}

\* the label's file is in the table
KnownFile(label) == label.file_id < Len(files)

\* the 0-based index of the line a byte offset of the label's file resolves to
LineIndexIn(label, byte_index) ==
    Files_line_index(files, label.file_id, byte_index).val

\* the byte offset at which a line of the label's file starts
LineStartIn(label, line_index) == files[label.file_id + 1].line_starts[line_index + 1]

\* the message a SourceLine entry carries under its mark, if any
CarriedMessage(e) ==
    IF e.kind = "SourceLine" /\ e.marks[1].mark.kind \in {"Single", "MultiBottom"}
    THEN <<e.marks[1].mark.message>> ELSE <<>>

RECURSIVE CarriedMessages(_)
\* the messages carried by the entries of a sequence, in order
CarriedMessages(es) ==
    IF es = <<>> THEN <<>> ELSE CarriedMessage(Head(es)) \o CarriedMessages(Tail(es))

RECURSIVE Flatten(_)
Flatten(ss) == IF ss = <<>> THEN <<>> ELSE Head(ss) \o Flatten(Tail(ss))

\* the file ids of the labels in the order in which each first occurs
FirstOccurrences ==
    LET first == {k \in 1..Len(Labels) :
                    \A j \in 1..(k - 1) : Labels[j].file_id # Labels[k].file_id}
        RECURSIVE ordered(_)
        ordered(k) ==
            IF k > Len(Labels) THEN <<>>
            ELSE (IF k \in first THEN <<Labels[k].file_id>> ELSE <<>>) \o ordered(k + 1)
    IN  ordered(1)

\* C5: the file groups are in the order in which each file's first label
\* occurs in the diagnostic, every label is in exactly one group, that of
\* its file, and each group's labels ascend by (range.start, range.end);
\* the rendered snippets follow that order.  Labels (a,5..8), (a,1..3),
\* (b,0..1) give the files a, b and a's labels 1..3, 5..8.
C5_GroupedByFileSortedByRange ==
    Grouped =>
        /\ [g \in 1..Len(marked_files) |-> marked_files[g].file_id] = FirstOccurrences
        /\ \A k \in 1..Len(Labels) :
             LET at == {gj \in UNION {{<<g, j>> : j \in 1..Len(marked_files[g].marks)} :
                                        g \in 1..Len(marked_files)} :
                          marked_files[gj[1]].marks[gj[2]].message = Labels[k].message}
             IN  /\ Cardinality(at) = 1
                 /\ \A gj \in at :
                      /\ marked_files[gj[1]].file_id = Labels[k].file_id
                      /\ marked_files[gj[1]].marks[gj[2]].range = Labels[k].range
        /\ Len(Flatten([g \in 1..Len(marked_files) |-> marked_files[g].marks]))
             = Len(Labels)
        /\ \A g \in 1..Len(marked_files) :
             LET marks == marked_files[g].marks
             IN  \A i, j \in 1..Len(marks) :
                    i < j =>
                      \/ marks[i].range.start < marks[j].range.start
                      \/ /\ marks[i].range.start = marks[j].range.start
                         /\ marks[i].range.end <= marks[j].range.end
        /\ pc = "done" =>
             /\ [g \in 1..Len(marked_files) |-> marked_files[g].origin]
                  = LET starts == SelectSeq(sink, LAMBDA e : e.kind = "SourceStart")
                    IN  [g \in 1..Len(starts) |-> starts[g].locus.origin]
             /\ CarriedMessages(sink)
                  = LET ms == Flatten([g \in 1..Len(marked_files) |->
                                          marked_files[g].marks])
                    IN  [k \in 1..Len(ms) |-> ms[k].message]
        /\ diagnostic = GroupingExample.diagnostic =>
             /\ [g \in 1..Len(marked_files) |-> marked_files[g].origin] = <<"a", "b">>
             /\ [j \in 1..Len(marked_files[1].marks) |-> marked_files[1].marks[j].range]
                  = <<[start |-> 1, end |-> 3], [start |-> 5, end |-> 8]>>

\* C5 witness: the grouping example has been rendered to its end
C5_Witness ==
    /\ pc = "done"
    /\ diagnostic = GroupingExample.diagnostic
    /\ Len(marked_files) = 2
    /\ marked_files[1].marks[1].message = Message(2)

\* the number of decimal digits of a line number of the model's texts
Digits(n) == IF n = 0 THEN 0 ELSE IF n < 10 THEN 1 ELSE IF n < 100 THEN 2 ELSE 3

\* the largest of a set of naturals, 0 for none
Max(S) == IF S = {} THEN 0 ELSE CHOOSE x \in S : \A y \in S : y <= x

\* C6: outer_padding is the number of decimal digits of the largest end-line
\* number over all labels of the diagnostic, in all files (0 without labels),
\* and every SourceStart, SourceEmpty, SourceBreak, SourceLine and SourceNote
\* of the render carries that value.
C6_OuterPaddingPerDiagnostic ==
    Grouped =>
        LET widest == Digits(Max({LineIndexIn(Labels[k], Labels[k].range.end) + 1 :
                                     k \in 1..Len(Labels)}))
        IN  /\ outer_padding = widest
            /\ \A k \in 1..Len(sink) :
                 sink[k].kind \in {"SourceStart", "SourceEmpty", "SourceBreak",
                                   "SourceLine", "SourceNote"}
                    => sink[k].outer_padding = widest

\* C6 witness: a render is done in which a file of two lines was framed
\* with the padding of another file's line 10
C6_Witness ==
    /\ pc = "done"
    /\ outer_padding = 2
    /\ \E k \in 1..Len(sink) :
         /\ sink[k].kind = "SourceStart"
         /\ sink[k].locus.origin = "b"
         /\ sink[k].outer_padding = 2
    /\ \E k \in 1..Len(sink) : sink[k].kind = "SourceNote"

\* the label's start and end resolve to the same line
SingleLine(label) ==
    LineIndexIn(label, label.range.start) = LineIndexIn(label, label.range.end)

\* the places of the sink's SourceLine entries that carry the message
CarriedAt(message) ==
    {k \in 1..Len(sink) : CarriedMessage(sink[k]) = <<message>>}

Separators == {"SourceEmpty", "SourceBreak"}

\* C7: in a render that ran to its end, a label whose start and end resolve
\* to the same line has exactly one SourceLine, for that line, with exactly
\* one mark Single(range.start - line.start .. range.end - line.start,
\* message), and no multi-line mark: the entry stands alone between two
\* separators.  Source "foo\nbar\n" with label 4..7 "oops" gives one
\* SourceLine for line 2 with Single(0..3, "oops").
C7_SingleLineLabel ==
    pc = "done" =>
        /\ \A n \in 1..Len(Labels) :
             SingleLine(Labels[n]) =>
               LET label == Labels[n]
                   line_index == LineIndexIn(label, label.range.start)
                   line_start == LineStartIn(label, line_index)
               IN  /\ Cardinality(CarriedAt(label.message)) = 1
                   /\ \A k \in CarriedAt(label.message) :
                        /\ sink[k].line_number = line_index + 1
                        /\ Len(sink[k].marks) = 1
                        /\ sink[k].marks[1].mark =
                             [kind |-> "Single",
                              start |-> label.range.start - line_start,
                              end |-> label.range.end - line_start,
                              message |-> label.message]
                        /\ sink[k - 1].kind \in Separators
                        /\ sink[k + 1].kind \in Separators
        /\ diagnostic = SingleLineExample.diagnostic =>
             LET lines == SelectSeq(sink, LAMBDA e : e.kind = "SourceLine")
             IN  /\ Len(lines) = 1
                 /\ lines[1].line_number = 2
                 /\ lines[1].source = <<"b", "a", "r", "\n">>
                 /\ lines[1].marks =
                      <<[severity |-> Some("Error"),
                         mark |-> [kind |-> "Single", start |-> 0, end |-> 3,
                                   message |-> "oops"]]>>

\* C7 witness: the single-line example has been rendered to its end
C7_Witness ==
    /\ pc = "done"
    /\ diagnostic = SingleLineExample.diagnostic
    /\ \E k \in 1..Len(sink) : sink[k].kind = "SourceLine"

\* the mark the claim gives the first line of a multi-line label
ClaimedTopMark(label) ==
    LET s == LineIndexIn(label, label.range.start)
        line_start == LineStartIn(label, s)
        source == files[label.file_id + 1].source
        before == {k \in 1..Len(source) :
                      /\ line_start <= char_indices(source)[k]
                      /\ char_indices(source)[k] < label.range.start}
    IN  IF \A k \in before : is_whitespace(source[k])
        THEN [kind |-> "MultiTopLeft"]
        ELSE [kind |-> "MultiTop", end |-> label.range.start - line_start]

\* the label has its e - s + 1 SourceLine entries in the sink, as the claim
\* describes them, between two separators
MultiLineRendered(label) ==
    LET s == LineIndexIn(label, label.range.start)
        e == LineIndexIn(label, label.range.end)
    IN  /\ Cardinality(CarriedAt(label.message)) = 1
        /\ \A last \in CarriedAt(label.message) :
             LET first == last - (e - s)
             IN  /\ first > 1
                 /\ sink[first - 1].kind \in Separators
                 /\ last < Len(sink)
                 /\ sink[last + 1].kind \in Separators
                 /\ \A k \in first..last :
                      /\ sink[k].kind = "SourceLine"
                      /\ sink[k].line_number = s + (k - first) + 1
                      /\ Len(sink[k].marks) = 1
                 /\ sink[first].marks[1].mark = ClaimedTopMark(label)
                 /\ \A k \in (first + 1)..(last - 1) :
                      sink[k].marks[1].mark = [kind |-> "MultiLeft"]
                 /\ sink[last].marks[1].mark =
                      [kind |-> "MultiBottom",
                       end |-> label.range.end - LineStartIn(label, e),
                       message |-> label.message]

\* C8 as claimed: when the rich emit has ended, and not by a failed
\* resolution or a failed write, every label whose start line s and end line
\* e differ has e - s + 1 SourceLine entries in ascending line order: the
\* first with MultiTopLeft if the text before the mark is empty or blank and
\* else MultiTop(..range.start - line_s.start), the ones between with
\* MultiLeft, the last with MultiBottom(..range.end - line_e.start, message),
\* and no Single mark.
C8_MultiLineLabel ==
    pc \in {"done", "panic_slice"} =>
        \A n \in 1..Len(Labels) :
            ~SingleLine(Labels[n]) => MultiLineRendered(Labels[n])

\* C8 holds of the renders that ran to their end
C8_MultiLineLabelWhenDone ==
    pc = "done" =>
        \A n \in 1..Len(Labels) :
            ~SingleLine(Labels[n]) => MultiLineRendered(Labels[n])

\* a multi-line label of three lines whose first line has text before the
\* mark has been rendered
C8_DoneWitness ==
    /\ pc = "done"
    /\ \E n \in 1..Len(Labels) :
         /\ LineIndexIn(Labels[n], Labels[n].range.end)
              = LineIndexIn(Labels[n], Labels[n].range.start) + 2
         /\ ClaimedTopMark(Labels[n]).kind = "MultiTop"

\* the column the claim gives a byte offset of a file: the characters of its
\* line lying entirely before it, plus one
ClaimedLocus(label) ==
    LET file == files[label.file_id + 1]
        line_index == LineIndexIn(label, label.range.start)
        range == ClaimedLineRangeOf(file, line_index)
        text == str_slice(file.source, range.start, range.end)
    IN  [origin |-> file.origin,
         line_number |-> line_index + 1,
         column_number |-> 1 + CharsEntirelyBefore(text, label.range.start - range.start)]

\* C9: the short emit renders only Header entries; when it ran to its end
\* they are one per Primary label, in the diagnostic's order, each with the
\* locus (origin, line number, column number) of that label's range.start,
\* nothing for a Secondary label, and a single Header without locus when no
\* label is Primary: max(1, number of Primary labels) entries.
C9_ShortHeaders ==
    /\ \A k \in 1..Len(sink) : sink[k].kind = "Header"
    /\ pc = "done" =>
         LET primary == SelectSeq(Labels, LAMBDA l : l.style = "Primary")
         IN  /\ Len(sink) = (IF Len(primary) = 0 THEN 1 ELSE Len(primary))
             /\ Len(primary) = 0 => sink[1].locus = None
             /\ \A k \in 1..Len(primary) :
                  sink[k].locus = Some(ClaimedLocus(primary[k]))

\* C9 witness: the short emit is done with a diagnostic of a Primary, a
\* Secondary and another Primary label
C9_Witness ==
    /\ pc = "done"
    /\ diagnostic = GroupingExample.diagnostic
    /\ Len(sink) = 2
    /\ sink[2].locus = Some([origin |-> "b", line_number |-> 1, column_number |-> 1])

\* the source table has no such file, or the range reaches past its text
Unrecognised(label) ==
    \/ ~KnownFile(label)
    \/ label.range.end > str_len(files[label.file_id + 1].source)

\* C10 as claimed: a label whose file or byte range the source table does
\* not recognise aborts the render: the emit never runs to its end and no
\* entry is rendered for that label.
C10_UnrecognisedLabelAborts ==
    \A n \in 1..Len(Labels) :
        Unrecognised(Labels[n]) =>
            /\ pc # "done"
            /\ CarriedAt(Labels[n].message) = {}

\* C10, the part that holds: a label of a file that is not in the table
\* aborts the rich emit before anything is rendered
C10_UnknownFileAborts ==
    (\E n \in 1..Len(Labels) : ~KnownFile(Labels[n])) =>
        /\ pc \in {"start", "panic_expect"}
        /\ sink = <<>>

---------------------------------------------------------------------------
(* Claims about the order of the render calls and about failures *)

\* the render calls the running emit makes on a sink that takes every entry
\* (the rich ones are known once the marks are grouped)
UnfailingEntries ==
    IF IsShort THEN short_entries(files, diagnostic)
    ELSE rich_entries(diagnostic, marked_files, outer_padding)

\* the sink holds the first entries of a sequence, in its order
IsPrefix(es, full) == Len(es) <= Len(full) /\ es = SubSeq(full, 1, Len(es))

\* C11: when the sink rejects the write of entry k, the emit (rich or short)
\* returns the error with the sink holding exactly the k-1 entries written
\* before, which are the first k-1 entries an unfailing sink would get (all
\* of which it gets when the emit returns Ok); nothing is taken back and
\* nothing is rendered after the error.
C11_SinkErrorKeepsPrefix ==
    /\ [](pc = "done" => sink = UnfailingEntries)
    /\ [](pc = "io_error" =>
            /\ IsPrefix(sink, UnfailingEntries)
            /\ Len(sink) < Len(UnfailingEntries)
            /\ UnfailingEntries[Len(sink) + 1] # Panic)
    /\ [][(pc' = "io_error" /\ pc # "io_error") => sink' = sink]_vars
    /\ [][pc = "io_error" => (sink' = sink /\ pc' = pc)]_vars
    /\ [][pc' \in {"render", "done"} /\ pc = "render" =>
            sink' = Append(sink, UnfailingEntries[Len(sink) + 1])]_vars

\* C11 witness: the sink has rejected an entry of a rich emit after it took
\* the Header, the Empty, a SourceStart, a SourceEmpty and a SourceLine
C11_Witness ==
    /\ pc = "io_error"
    /\ IsRich
    /\ Len(sink) = 5
    /\ sink[5].kind = "SourceLine"

\* the places of the sink's entries of the given kinds
PlacesOf(kinds) == {k \in 1..Len(sink) : sink[k].kind \in kinds}

\* the entries of a file group
GroupKinds == {"SourceStart", "SourceEmpty", "SourceBreak", "SourceLine"}

\* C12: in a rich emit that returned Ok the Header, without locus and with
\* the diagnostic's severity, is rendered exactly once and first, before any
\* SourceStart; the SourceNote entries are one per note of the diagnostic in
\* the notes' order, all after the closing SourceEmpty of the last file
\* group; the last entry is Empty.
C12_HeaderFirstNotesLastThenEmpty ==
    pc = "done" =>
        /\ sink[1] = [kind |-> "Header", locus |-> None,
                      severity |-> diagnostic.severity]
        /\ PlacesOf({"Header"}) = {1}
        /\ \A k \in PlacesOf({"SourceStart"}) : k > 1
        /\ LET notes == SelectSeq(sink, LAMBDA e : e.kind = "SourceNote")
           IN  [k \in 1..Len(notes) |-> notes[k].message] = diagnostic.notes
        /\ \A n \in PlacesOf({"SourceNote"}) : \A k \in PlacesOf(GroupKinds) : k < n
        /\ PlacesOf({"SourceStart"}) # {} =>
             sink[Max(PlacesOf(GroupKinds))].kind = "SourceEmpty"
        /\ sink[Len(sink)] = [kind |-> "Empty"]
        /\ \A n \in PlacesOf({"SourceNote"}) : n < Len(sink)

\* C12 witness: a rich emit of a diagnostic with two notes and labels in two
\* files has returned Ok
C12_Witness ==
    /\ pc = "done"
    /\ Cardinality(PlacesOf({"SourceStart"})) = 2
    /\ Cardinality(PlacesOf({"SourceNote"})) = 2
    /\ sink[Len(sink) - 1].kind = "SourceNote"

RECURSIVE Ascending(_)
\* the elements of a finite set of naturals in ascending order
Ascending(S) ==
    IF S = {} THEN <<>>
    ELSE LET least == CHOOSE x \in S : \A y \in S : x <= y
         IN  <<least>> \o Ascending(S \ {least})

\* the labels of a file, and the one that sorts lowest by (start, end)
LabelsOf(file_id) == SelectSeq(Labels, LAMBDA l : l.file_id = file_id)

LowestLabelOf(file_id) ==
    LET ls == LabelsOf(file_id)
        lowest == CHOOSE i \in 1..Len(ls) :
                     \A j \in 1..Len(ls) :
                        \/ ls[i].range.start < ls[j].range.start
                        \/ /\ ls[i].range.start = ls[j].range.start
                           /\ ls[i].range.end <= ls[j].range.end
    IN  ls[lowest]

\* the entries of the sink from the g-th SourceStart to the last entry of
\* its file group
BlockOf(g) ==
    LET starts == Ascending(PlacesOf({"SourceStart"}))
    IN  SubSeq(sink, starts[g],
               IF g < Len(starts) THEN starts[g + 1] - 1
               ELSE Max(PlacesOf(GroupKinds)))

\* every file group is in the sink, framed as the claim says, in the order
\* of the file groups
FileGroupsFramed ==
    /\ Cardinality(PlacesOf({"SourceStart"})) = Len(FirstOccurrences)
    /\ \A g \in 1..Len(FirstOccurrences) :
         LET file_id == FirstOccurrences[g]
             k == Len(LabelsOf(file_id))
             block == BlockOf(g)
             n == Len(block)
             count(kind) == Cardinality({i \in 1..n : block[i].kind = kind})
         IN  /\ n >= 4
             /\ block[1] = [kind |-> "SourceStart", outer_padding |-> outer_padding,
                            locus |-> ClaimedLocus(LowestLabelOf(file_id))]
             /\ block[2].kind = "SourceEmpty"
             /\ block[3].kind = "SourceLine"
             /\ block[n].kind = "SourceEmpty"
             /\ block[n - 1].kind = "SourceLine"
             /\ \A i \in 1..n : block[i].kind \in GroupKinds
             /\ \A i \in 1..n :
                  block[i].kind = "SourceBreak" =>
                     (block[i - 1].kind = "SourceLine" /\ block[i + 1].kind = "SourceLine")
             /\ count("SourceStart") = 1
             /\ count("SourceEmpty") = 2
             /\ count("SourceBreak") = k - 1

\* C13 as claimed: when the rich emit has ended, and not by a failed
\* resolution or a failed write, each file group of k >= 1 labels is one
\* SourceStart with the locus of its lowest-sorted label's range.start, a
\* SourceEmpty right before the first label's SourceLine entries, a
\* SourceBreak right before those of each of the other k-1 labels and one
\* closing SourceEmpty: 1 SourceStart, 2 SourceEmpty and k-1 SourceBreak per
\* group, the groups one after the other in file-group order.
C13_FileGroupFraming ==
    pc \in {"done", "panic_slice"} => FileGroupsFramed

\* C13 holds of the rich emits that returned Ok
C13_FileGroupFramingWhenDone ==
    pc = "done" => FileGroupsFramed

\* two file groups, the first of two labels, have been rendered to the end
C13_DoneWitness ==
    /\ pc = "done"
    /\ Len(FirstOccurrences) = 2
    /\ Len(LabelsOf(FirstOccurrences[1])) = 2
    /\ Cardinality(PlacesOf({"SourceBreak"})) = 1

\* the Primary labels of the diagnostic, in the diagnostic's order
PrimaryLabels == SelectSeq(Labels, LAMBDA l : l.style = "Primary")

\* the places, among the Primary labels, of those the source table cannot
\* resolve
UnresolvedPrimary == {j \in 1..Len(PrimaryLabels) : ~KnownFile(PrimaryLabels[j])}

\* the located Header of the short emit for a label
LocatedHeader(label) ==
    [kind |-> "Header", locus |-> Some(ClaimedLocus(label)),
     severity |-> diagnostic.severity]

\* C14: the rich emit resolves every label before it writes its first
\* entry, so when the source table cannot resolve some label, be it the
\* last one, the emit aborts with nothing on the sink, not even the Header;
\* the short emit resolves each Primary label right before it writes the
\* label's Header, so when the j-th Primary label is the first that cannot
\* be resolved, the emit aborts with exactly the j-1 earlier Headers on the
\* sink.
C14_ResolutionBeforeWriting ==
    /\ IsRich =>
         /\ (\E n \in 1..Len(Labels) : ~KnownFile(Labels[n])) =>
               (pc \in {"start", "panic_expect"} /\ sink = <<>>)
         /\ pc = "panic_expect" =>
               (sink = <<>> /\ \E n \in 1..Len(Labels) : ~KnownFile(Labels[n]))
    /\ IsShort =>
         /\ UnresolvedPrimary # {} =>
               LET j == CHOOSE j \in UnresolvedPrimary :
                           \A i \in UnresolvedPrimary : j <= i
               IN  /\ pc \in {"start", "io_error", "panic_expect"}
                   /\ Len(sink) <= j - 1
                   /\ \A i \in 1..Len(sink) : sink[i] = LocatedHeader(PrimaryLabels[i])
                   /\ pc = "panic_expect" => Len(sink) = j - 1
         /\ pc = "panic_expect" => UnresolvedPrimary # {}

\* the short emit has aborted on its second Primary label, with the first
\* label's Header on the sink
C14_Witness ==
    /\ IsShort
    /\ pc = "panic_expect"
    /\ UnresolvedPrimary = {2}
    /\ Len(sink) = 1
    /\ sink[1].locus # None

\* the rich emit has aborted on its last label, the first one being
\* resolvable
C14_RichWitness ==
    /\ IsRich
    /\ pc = "panic_expect"
    /\ Len(Labels) = 2
    /\ KnownFile(Labels[1])
    /\ ~KnownFile(Labels[2])
    /\ sink = <<>>

===========================================================================
